---- MODULE Spec2Model ----
(***************************************************************************)
(* Contract signature workflow of the event back office: the contracts     *)
(* table, the upload route, the send-to-assinafy route, the                *)
(* request-signatures route and the Assinafy webhook route, as a state     *)
(* machine.  Every route handler is a sequence of steps cut at its awaits  *)
(* (database read, provider call, database update); several requests may  *)
(* be in flight at once, one per request slot.                             *)
(***************************************************************************)
EXTENDS Integers, Sequences, FiniteSets, TLC

\* ------------------------------------------------------------------ bounds
MaxContracts == 2
MaxTime == 2
MaxSigners == 2
MaxRequests == 4
MaxRows == 2

\* ------------------------------------------------------------------ values
\* a column or a payload field that is null / undefined
NULL == "NULL"
\* signed_at IS NULL
NullTime == 0

Slots == {"r1", "r2"}
Users == {"u1", "u2"}
Uploaders == {"u1"}
DocIds == {"doc-1", "doc-2"}
AssignmentIds == {"asg-1"}
OriginalUrl == "https://provider/original.pdf"
CertUrl == "https://provider/certificated.pdf"
CertUrlReissued == "https://provider/certificated-2.pdf"

\* JavaScript truthiness of an optional string
Truthy(x) == x # NULL /\ x # ""

\* a || b on optional strings
Or2(a, b) == IF Truthy(a) THEN a ELSE b

\* ---------------------------------------------------------- contracts table
\* the row db.insert(contracts) creates in the upload route
NewContract(user) ==
  [ uploadedByUserId |-> user,
    filePath |-> "/uploads/contracts/file.pdf",
    status |-> "uploaded",
    signedAt |-> NullTime,
    assinafyDocumentId |-> NULL,
    assinafyStatus |-> NULL,
    assinafyOriginalUrl |-> NULL,
    assinafyCertificatedUrl |-> NULL,
    assinafySignatureRequestId |-> NULL ]

\* drizzle's .set(updateData): the keys present in updateData overwrite the row,
\* a key that is absent (undefined) leaves its column alone
ApplySet(row, updateData) ==
  [ k \in DOMAIN row |-> IF k \in DOMAIN updateData THEN updateData[k] ELSE row[k] ]

\* variant: the select without its where clause
SelectWithoutWhere(cs, id) == 1..Len(cs)

\* .where(eq(contracts.assinafyDocumentId, id)).limit(1): the ids of the rows found
SelectByDocumentId(cs, id) ==
  { c \in 1..Len(cs) : cs[c].assinafyDocumentId = id }

\* variant: the column without its unique constraint
NoUniqueConstraint(cs, c, d) == FALSE

\* the unique constraint on assinafy_document_id: would an update of row c
\* to document id d be rejected by the database
UniqueViolation(cs, c, d) ==
  d # NULL /\ \E o \in 1..Len(cs) : o # c /\ cs[o].assinafyDocumentId = d

\* ------------------------------------------------------------ webhook payload
\* AssinafyDocumentData; defined = FALSE is a property that is not there
NoDoc ==
  [ defined |-> FALSE, id |-> NULL, document_id |-> NULL, status |-> NULL,
    current_status |-> NULL, artifactsCertificated |-> NULL,
    downloadUrlsCertificated |-> NULL ]

\* AssinafyWebhookPayload: the event name under one of three keys, the document
\* under data.document or document, or its fields on the container itself
\* (dataSelf, self)
NoPayload ==
  [ event |-> NULL, event_type |-> NULL, type |-> NULL, hasData |-> FALSE,
    dataDocument |-> NoDoc, dataSelf |-> NoDoc, document |-> NoDoc, self |-> NoDoc ]

\* payload.event || payload.event_type || payload.type
EventTypeOf(payload) == Or2(payload.event, Or2(payload.event_type, payload.type))

\* documentDataContainer?.document || documentDataContainer,
\* with documentDataContainer = payload.data || payload
DocumentInfoOf(payload) ==
  LET containerDocument == IF payload.hasData THEN payload.dataDocument ELSE payload.document
      containerSelf == IF payload.hasData THEN payload.dataSelf ELSE payload.self
  IN  IF containerDocument.defined THEN containerDocument ELSE containerSelf

\* documentInfo.id || documentInfo.document_id
DocumentIdOf(documentInfo) == Or2(documentInfo.id, documentInfo.document_id)

\* documentInfo.status || documentInfo.current_status
CurrentStatusOf(documentInfo) == Or2(documentInfo.status, documentInfo.current_status)

\* documentInfo.artifacts?.certificated || documentInfo.download_urls?.certificated
CertUrlOf(documentInfo) ==
  Or2(documentInfo.artifactsCertificated, documentInfo.downloadUrlsCertificated)

\* the canonical tuple the handler works with after extraction
Normalize(payload) ==
  LET documentInfo == DocumentInfoOf(payload)
  IN  [ eventType |-> EventTypeOf(payload),
        assinafyDocumentId |-> DocumentIdOf(documentInfo),
        assinafyCurrentStatus |-> CurrentStatusOf(documentInfo),
        certUrl |-> CertUrlOf(documentInfo) ]

\* variant: the switch on eventType as delivered
SameCase(s) == s

\* String.prototype.toLowerCase on the event names the model delivers
ToLowerCase(s) ==
  CASE s = "DOCUMENT_SIGNED" -> "document_signed"
    [] s = "Document_Certificated" -> "document_certificated"
    [] s = "DOCUMENT_EXPIRED" -> "document_expired"
    [] OTHER -> s

\* ------------------------------------------------------------- status mapper
NoKeys == [ k \in {} |-> NULL ]

\* variant: the payload's status is copied whether or not there is one
BaseUpdateUnguarded(assinafyCurrentStatus) ==
  [ assinafyStatus |-> assinafyCurrentStatus ]

\* updateData.assinafyStatus = assinafyCurrentStatus, when the payload has one
BaseUpdate(assinafyCurrentStatus) ==
  IF Truthy(assinafyCurrentStatus)
  THEN [ assinafyStatus |-> assinafyCurrentStatus ] ELSE NoKeys

\* variant: the completion branch without its signedAt line
CompletionUpdateNoSignedAt(ev, t) ==
  [ assinafyStatus |-> Or2(ev.assinafyCurrentStatus, "certificated"),
    status |-> "signed" ]
  @@ (IF Truthy(ev.certUrl) THEN [ assinafyCertificatedUrl |-> ev.certUrl ] ELSE NoKeys)

\* variant: the completion branch sets the certificated URL whether or not the
\* payload carries one
CompletionUpdateUrlUnguarded(ev, t) ==
  [ assinafyStatus |-> Or2(ev.assinafyCurrentStatus, "certificated"),
    status |-> "signed",
    signedAt |-> t,
    assinafyCertificatedUrl |-> ev.certUrl ]

\* the completion branch: assinafyStatus, status, signedAt and, when the payload
\* carries one, the certificated URL
CompletionUpdate(ev, t) ==
  [ assinafyStatus |-> Or2(ev.assinafyCurrentStatus, "certificated"),
    status |-> "signed",
    signedAt |-> t ]
  @@ (IF Truthy(ev.certUrl) THEN [ assinafyCertificatedUrl |-> ev.certUrl ] ELSE NoKeys)

\* variant: a processing failure puts the contract back to uploaded
StatusUpdateResets(ev, defaultAssinafyStatus, newStatus) ==
  [ assinafyStatus |-> Or2(ev.assinafyCurrentStatus, defaultAssinafyStatus),
    status |-> IF newStatus = "error_signature_provider" THEN "uploaded" ELSE newStatus ]

\* a branch that sets assinafyStatus (the payload's, else the default) and status
StatusUpdate(ev, defaultAssinafyStatus, newStatus) ==
  [ assinafyStatus |-> Or2(ev.assinafyCurrentStatus, defaultAssinafyStatus),
    status |-> newStatus ]

\* The switch on eventType.toLowerCase(): early is the return inside the default
\* branch, data is updateData without its updatedAt key.
MapEvent(ev, currentAssinafyStatus, t) ==
  LET e == ToLowerCase(ev.eventType)
      base == BaseUpdate(ev.assinafyCurrentStatus)
  IN  CASE e = "document_viewed_by_signer" ->
             [ early |-> FALSE, data |-> base ]
        [] e \in {"signer_signed_document", "document_signed"} ->
             [ early |-> FALSE,
               data |-> StatusUpdate(ev, "pending_signature", "pending_assinaturas") ]
        [] e \in {"document_ready", "process_completed", "document_certificated"} ->
             [ early |-> FALSE, data |-> CompletionUpdate(ev, t) ]
        [] e \in {"document_rejected", "signer_rejected_document"} ->
             [ early |-> FALSE, data |-> StatusUpdate(ev, "rejected_by_signer", "rejected") ]
        [] e = "document_expired" ->
             [ early |-> FALSE, data |-> StatusUpdate(ev, "expired", "expired") ]
        [] e \in {"document_cancelled", "rejected_by_user"} ->
             [ early |-> FALSE, data |-> StatusUpdate(ev, "cancelled", "cancelled") ]
        [] e \in {"document_processing_failed", "failed"} ->
             [ early |-> FALSE,
               data |-> StatusUpdate(ev, "failed", "error_signature_provider") ]
        [] OTHER ->
             IF Truthy(ev.assinafyCurrentStatus)
                /\ ev.assinafyCurrentStatus # currentAssinafyStatus
             THEN [ early |-> FALSE, data |-> base ]
             ELSE [ early |-> TRUE, data |-> base ]

\* Object.keys(updateData).length > 1: some key besides updatedAt is set
HasChanges(updateData) == DOMAIN updateData # {}

\* ----------------------------------------------------------------- signers
\* what z.string().min(1) looks at: the length of fullName
NameLength(fullName) ==
  CASE fullName = "" -> 0
    [] fullName = " " -> 1
    [] OTHER -> 9

\* what z.string().email() accepts, on the addresses the model submits
EmailOk(email) == email \in {"ana@example.com", "bob@example.com"}

\* signerSchema
SignerOk(signer) == NameLength(signer.fullName) >= 1 /\ EmailOk(signer.email)

\* requestSignaturesSchema.safeParse(body).success
SignersOk(signers) ==
  Len(signers) >= 1 /\ \A i \in 1..Len(signers) : SignerOk(signers[i])

\* ------------------------------------------------------------------- state
VARIABLES
  contracts,  \* the contracts table: row id = index
  now,        \* the clock new Date() reads
  pc,         \* per request slot: where its handler stands
  req,        \* per request slot: the handler's local variables
  resp,       \* per request slot: the response the handler returned
  calls,      \* per request slot: the provider calls the handler has made
  writes,     \* per request slot: the contract updates the handler has made
  started,    \* requests started so far
  tables      \* the tables of suppliers and events: the rows of each, by name

vars == << contracts, now, pc, req, resp, calls, writes, started, tables >>

NoResp == [ status |-> 0, error |-> NULL ]

NoReq ==
  [ kind |-> "none", clerkUserId |-> NULL, contractId |-> 0, data |-> NoKeys, signers |-> << >>,
    ids |-> << >>, payload |-> << >>, delivery |-> 0, after1 |-> << >>, params |-> NoKeys ]

\* no row in any table of suppliers and events, no id given out
NoRows ==
  [ supplierCategories |-> {}, suppliers |-> {}, eventTypes |-> {}, eventSizes |-> {},
    events |-> {}, eventSuppliers |-> {},
    serial |-> [ supplierCategories |-> 0, suppliers |-> 0, eventTypes |-> 0,
                 eventSizes |-> 0, events |-> 0, eventSuppliers |-> 0 ] ]

Init ==
  /\ tables = NoRows
  /\ contracts = << >>
  /\ now = 1
  /\ pc = [ p \in Slots |-> "idle" ]
  /\ req = [ p \in Slots |-> NoReq ]
  /\ resp = [ p \in Slots |-> NoResp ]
  /\ calls = [ p \in Slots |-> << >> ]
  /\ writes = [ p \in Slots |-> 0 ]
  /\ started = 0

\* a request arrives on a free slot
Accept(p) == pc[p] = "idle" /\ started < MaxRequests /\ started' = started + 1

\* NextResponse.json(..., { status }): the handler ends
Respond(p, status, error) ==
  /\ pc' = [ pc EXCEPT ![p] = "done" ]
  /\ resp' = [ resp EXCEPT ![p] = [ status |-> status, error |-> error ] ]

\* variant: the update without its where clause
UpdateEveryContract(p, c, updateData) ==
  /\ contracts' = [ i \in 1..Len(contracts) |-> ApplySet(contracts[i], updateData) ]
  /\ writes' = [ writes EXCEPT ![p] = @ + 1 ]

\* db.update(contracts).set(updateData).where(eq(contracts.id, c))
UpdateContract(p, c, updateData) ==
  /\ contracts' = [ contracts EXCEPT ![c] = ApplySet(contracts[c], updateData) ]
  /\ writes' = [ writes EXCEPT ![p] = @ + 1 ]

\* an outbound provider call: how it went (outcome) and whether the handler took
\* its answer as a success (ok)
ProviderCall(p, name, outcome) ==
  calls' = [ calls EXCEPT ![p] =
    Append(@, [ op |-> name, ok |-> outcome = "ok", outcome |-> outcome ]) ]

\* time passes
Tick ==
  /\ UNCHANGED tables
  /\ now < MaxTime
  /\ now' = now + 1
  /\ UNCHANGED << contracts, pc, req, resp, calls, writes, started >>

\* the response has been sent; the slot is free again
Finish(p) ==
  /\ UNCHANGED tables
  /\ pc[p] = "done"
  /\ pc' = [ pc EXCEPT ![p] = "idle" ]
  /\ req' = [ req EXCEPT ![p] = NoReq ]
  /\ resp' = [ resp EXCEPT ![p] = NoResp ]
  /\ calls' = [ calls EXCEPT ![p] = << >> ]
  /\ writes' = [ writes EXCEPT ![p] = 0 ]
  /\ UNCHANGED << contracts, now, started >>

\* ------------------------------------------------------- POST /api/contracts
\* the upload route: a signed-in user with a file and a title inserts a row
Upload(clerkUserId) ==
  /\ UNCHANGED tables
  /\ started < MaxRequests
  /\ Len(contracts) < MaxContracts
  /\ clerkUserId # NULL
  /\ contracts' = Append(contracts, NewContract(clerkUserId))
  /\ started' = started + 1
  /\ UNCHANGED << now, pc, req, resp, calls, writes >>

\* --------------------------------- POST /api/contracts/[id]/send-to-assinafy
\* no early return: the handler goes on
Proceed == [ status |-> 0, error |-> NULL ]

\* variant: the early returns without the uploader check
SubmitCheckNoOwner(clerkUserId, contractId, envOk, fileOk) ==
  IF clerkUserId = NULL THEN [ status |-> 401, error |-> "Unauthorized" ]
  ELSE IF ~envOk THEN [ status |-> 500, error |-> "NotConfigured" ]
  ELSE IF contractId \notin 1..Len(contracts) THEN [ status |-> 404, error |-> "NotFound" ]
  ELSE IF Truthy(contracts[contractId].assinafyDocumentId)
    THEN [ status |-> 409, error |-> "AlreadySubmitted" ]
  ELSE IF ~fileOk THEN [ status |-> 500, error |-> "FileUnavailable" ]
  ELSE Proceed

\* the early returns before the provider call, in the handler's order:
\* authentication, the credentials, the contract read and its checks, the file read
SubmitCheck(clerkUserId, contractId, envOk, fileOk) ==
  IF clerkUserId = NULL THEN [ status |-> 401, error |-> "Unauthorized" ]
  ELSE IF ~envOk THEN [ status |-> 500, error |-> "NotConfigured" ]
  ELSE IF contractId \notin 1..Len(contracts) THEN [ status |-> 404, error |-> "NotFound" ]
  ELSE IF contracts[contractId].uploadedByUserId # clerkUserId
    THEN [ status |-> 403, error |-> "Forbidden" ]
  ELSE IF Truthy(contracts[contractId].assinafyDocumentId)
    THEN [ status |-> 409, error |-> "AlreadySubmitted" ]
  ELSE IF ~fileOk THEN [ status |-> 500, error |-> "FileUnavailable" ]
  ELSE Proceed

\* the handler up to its provider call; one that goes on keeps clerkUserId and
\* contractId
SubmitStart(p, clerkUserId, contractId, envOk, fileOk) ==
  LET check == SubmitCheck(clerkUserId, contractId, envOk, fileOk)
  IN  /\ Accept(p)
      /\ UNCHANGED tables
      /\ UNCHANGED << contracts, now, calls, writes >>
      /\ IF check = Proceed
         THEN /\ req' = [ req EXCEPT ![p] =
                   [ NoReq EXCEPT !.kind = "submit", !.clerkUserId = clerkUserId,
                                  !.contractId = contractId ] ]
              /\ pc' = [ pc EXCEPT ![p] = "sub_fetch" ]
              /\ UNCHANGED resp
         ELSE /\ req' = [ req EXCEPT ![p] = [ NoReq EXCEPT !.kind = "submit" ] ]
              /\ Respond(p, check.status, check.error)

SubmitOutcomes == { "network", "http_error", "body_error", "bad_json", "ok" }

\* variant: a failed provider call is recorded on the contract
SubmitFetchRecordsFailure(p, outcome, newAssinafyDocumentId) ==
  /\ UNCHANGED tables
  /\ pc[p] = "sub_fetch"
  /\ ProviderCall(p, "uploadDocument", outcome)
  /\ UNCHANGED << now, started >>
  /\ IF outcome = "ok"
     THEN /\ req' = [ req EXCEPT ![p].data =
                 [ assinafyDocumentId |-> newAssinafyDocumentId,
                   assinafyStatus |-> "uploaded",
                   assinafyOriginalUrl |-> OriginalUrl,
                   status |-> "pending_signature_setup" ] ]
          /\ pc' = [ pc EXCEPT ![p] = "sub_update" ]
          /\ UNCHANGED << resp, contracts, writes >>
     ELSE /\ UpdateContract(p, req[p].contractId, [ status |-> "error_sending_to_provider" ])
          /\ Respond(p, 502, "ProviderCommunication")
          /\ UNCHANGED req

\* the fetch of the provider's documents endpoint and the reading of its answer
SubmitFetch(p, outcome, newAssinafyDocumentId) ==
  /\ UNCHANGED tables
  /\ pc[p] = "sub_fetch"
  /\ ProviderCall(p, "uploadDocument", outcome)
  /\ UNCHANGED << contracts, now, writes, started >>
  /\ CASE outcome = "network" ->
            Respond(p, 502, "ProviderCommunication") /\ UNCHANGED req
       [] outcome = "bad_json" ->
            Respond(p, 500, "Internal") /\ UNCHANGED req
       [] outcome = "http_error" ->
            Respond(p, 422, "ProviderFailed") /\ UNCHANGED req
       [] outcome = "body_error" ->
            Respond(p, 200, "ProviderFailed") /\ UNCHANGED req
       [] OTHER ->
            /\ req' = [ req EXCEPT ![p].data =
                 [ assinafyDocumentId |-> newAssinafyDocumentId,
                   assinafyStatus |-> "uploaded",
                   assinafyOriginalUrl |-> OriginalUrl,
                   status |-> "pending_signature_setup" ] ]
            /\ pc' = [ pc EXCEPT ![p] = "sub_update" ]
            /\ UNCHANGED resp

\* variant: the update sets the document id and leaves the other columns for later
SubmitUpdateIdOnly(p, dbOk) ==
  /\ UNCHANGED tables
  /\ pc[p] = "sub_update"
  /\ UNCHANGED << now, req, calls, started >>
  /\ IF dbOk /\ ~UniqueViolation(contracts, req[p].contractId, req[p].data.assinafyDocumentId)
     THEN /\ UpdateContract(p, req[p].contractId,
                [ assinafyDocumentId |-> req[p].data.assinafyDocumentId ])
          /\ Respond(p, 200, "Submitted")
     ELSE /\ Respond(p, 500, "Internal")
          /\ UNCHANGED << contracts, writes >>

\* the update of the contract with the provider's data
SubmitUpdate(p, dbOk) ==
  /\ UNCHANGED tables
  /\ pc[p] = "sub_update"
  /\ UNCHANGED << now, req, calls, started >>
  /\ IF dbOk /\ ~UniqueViolation(contracts, req[p].contractId, req[p].data.assinafyDocumentId)
     THEN /\ UpdateContract(p, req[p].contractId, req[p].data)
          /\ Respond(p, 200, "Submitted")
     ELSE /\ Respond(p, 500, "Internal")
          /\ UNCHANGED << contracts, writes >>

\* ----------------------- POST /api/contracts/[contractId]/request-signatures
\* variant: the early returns without the check that the contract was submitted
ReqSigCheckNoSubmitted(clerkUserId, contractId, envOk, signers) ==
  IF clerkUserId = NULL THEN [ status |-> 401, error |-> "Unauthorized" ]
  ELSE IF ~envOk THEN [ status |-> 500, error |-> "NotConfigured" ]
  ELSE IF ~SignersOk(signers) THEN [ status |-> 400, error |-> "InvalidSigners" ]
  ELSE IF contractId \notin 1..Len(contracts) THEN [ status |-> 404, error |-> "NotFound" ]
  ELSE IF contracts[contractId].uploadedByUserId # clerkUserId
    THEN [ status |-> 403, error |-> "Forbidden" ]
  ELSE Proceed

\* the early returns before the first provider call, in the handler's order:
\* authentication, the credentials, the body's validation, the contract read
\* and its checks
ReqSigCheck(clerkUserId, contractId, envOk, signers) ==
  IF clerkUserId = NULL THEN [ status |-> 401, error |-> "Unauthorized" ]
  ELSE IF ~envOk THEN [ status |-> 500, error |-> "NotConfigured" ]
  ELSE IF ~SignersOk(signers) THEN [ status |-> 400, error |-> "InvalidSigners" ]
  ELSE IF contractId \notin 1..Len(contracts) THEN [ status |-> 404, error |-> "NotFound" ]
  ELSE IF contracts[contractId].uploadedByUserId # clerkUserId
    THEN [ status |-> 403, error |-> "Forbidden" ]
  ELSE IF ~Truthy(contracts[contractId].assinafyDocumentId)
    THEN [ status |-> 400, error |-> "NotYetSubmitted" ]
  ELSE Proceed

\* the handler up to its first provider call; one that goes on keeps
\* clerkUserId, ourContractId and providedSigners
ReqSigStart(p, clerkUserId, contractId, envOk, signers) ==
  LET check == ReqSigCheck(clerkUserId, contractId, envOk, signers)
  IN  /\ Accept(p)
      /\ UNCHANGED tables
      /\ UNCHANGED << contracts, now, calls, writes >>
      /\ IF check = Proceed
         THEN /\ req' = [ req EXCEPT ![p] =
                   [ NoReq EXCEPT !.kind = "reqsig", !.clerkUserId = clerkUserId,
                                  !.contractId = contractId, !.signers = signers ] ]
              /\ pc' = [ pc EXCEPT ![p] = "rs_signer" ]
              /\ UNCHANGED resp
         ELSE /\ req' = [ req EXCEPT ![p] = [ NoReq EXCEPT !.kind = "reqsig" ] ]
              /\ Respond(p, check.status, check.error)

CallOutcomes == { "network", "rejected", "ok" }

\* signerData.data.id: the id the provider gives the signer it created
ProviderSignerId(signer) ==
  IF signer.email = "ana@example.com" THEN "sgn-ana" ELSE "sgn-bob"

\* variant: the signer ids are collected newest first
ReqSigCreateSignerUnshift(p, outcome) ==
  /\ UNCHANGED tables
  /\ pc[p] = "rs_signer"
  /\ ProviderCall(p, "createSigner", outcome)
  /\ UNCHANGED << contracts, now, writes, started >>
  /\ IF outcome = "ok"
     THEN /\ req' = [ req EXCEPT ![p].ids =
                 << ProviderSignerId(req[p].signers[Len(req[p].ids) + 1]) >> \o @ ]
          /\ pc' = [ pc EXCEPT ![p] =
               IF Len(req[p].ids) + 1 = Len(req[p].signers) THEN "rs_assign" ELSE "rs_signer" ]
          /\ UNCHANGED resp
     ELSE /\ Respond(p, 500, "SignerCommunication")
          /\ UNCHANGED req

\* variant: a failed createSigner call is made again
ReqSigCreateSignerRetries(p, outcome) ==
  /\ UNCHANGED tables
  /\ pc[p] = "rs_signer"
  /\ ProviderCall(p, "createSigner", outcome)
  /\ UNCHANGED << contracts, now, writes, started, resp >>
  /\ IF outcome = "ok"
     THEN /\ req' = [ req EXCEPT ![p].ids =
                 Append(@, ProviderSignerId(req[p].signers[Len(req[p].ids) + 1])) ]
          /\ pc' = [ pc EXCEPT ![p] =
               IF Len(req[p].ids) + 1 = Len(req[p].signers) THEN "rs_assign" ELSE "rs_signer" ]
     ELSE UNCHANGED << req, pc >>

\* one turn of the loop over providedSigners: create the signer at the provider
ReqSigCreateSigner(p, outcome) ==
  /\ UNCHANGED tables
  /\ pc[p] = "rs_signer"
  /\ ProviderCall(p, "createSigner", outcome)
  /\ UNCHANGED << contracts, now, writes, started >>
  /\ IF outcome = "ok"
     THEN /\ req' = [ req EXCEPT ![p].ids =
                 Append(@, ProviderSignerId(req[p].signers[Len(req[p].ids) + 1])) ]
          /\ pc' = [ pc EXCEPT ![p] =
               IF Len(req[p].ids) + 1 = Len(req[p].signers) THEN "rs_assign" ELSE "rs_signer" ]
          /\ UNCHANGED resp
     ELSE /\ Respond(p, 500, "SignerCommunication")
          /\ UNCHANGED req

\* variant: the assignment's answer is not looked at
ReqSigAssignIgnoresAnswer(p, outcome, assinafySignatureRequestId) ==
  /\ UNCHANGED tables
  /\ pc[p] = "rs_assign"
  /\ UNCHANGED << contracts, now, writes, started, resp >>
  /\ ProviderCall(p, "createSignatureAssignment", outcome)
  /\ req' = [ req EXCEPT ![p].data =
       [ assinafyStatus |-> "pending_signature",
         status |-> "pending_assinaturas",
         assinafySignatureRequestId |->
           IF outcome = "ok" THEN assinafySignatureRequestId ELSE NULL ] ]
  /\ pc' = [ pc EXCEPT ![p] = "rs_update" ]

\* after the loop: the length check, then the assignment call
ReqSigAssign(p, outcome, assinafySignatureRequestId) ==
  /\ UNCHANGED tables
  /\ pc[p] = "rs_assign"
  /\ UNCHANGED << contracts, now, writes, started >>
  /\ IF Len(req[p].ids) # Len(req[p].signers)
     THEN Respond(p, 500, "SignersIncomplete") /\ UNCHANGED << req, calls >>
     ELSE /\ ProviderCall(p, "createSignatureAssignment", outcome)
          /\ CASE outcome = "network" ->
                    Respond(p, 500, "Internal") /\ UNCHANGED req
               [] outcome = "rejected" ->
                    Respond(p, 500, "AssignmentFailed") /\ UNCHANGED req
               [] OTHER ->
                    /\ req' = [ req EXCEPT ![p].data =
                         [ assinafyStatus |-> "pending_signature",
                           status |-> "pending_assinaturas",
                           assinafySignatureRequestId |-> assinafySignatureRequestId ] ]
                    /\ pc' = [ pc EXCEPT ![p] = "rs_update" ]
                    /\ UNCHANGED resp

\* the update of the contract after the assignment
ReqSigUpdate(p, dbOk) ==
  /\ UNCHANGED tables
  /\ pc[p] = "rs_update"
  /\ UNCHANGED << now, req, calls, started >>
  /\ IF dbOk
     THEN /\ UpdateContract(p, req[p].contractId, req[p].data)
          /\ Respond(p, 200, "Requested")
     ELSE /\ Respond(p, 500, "Internal")
          /\ UNCHANGED << contracts, writes >>

\* ------------------------------------------------ POST /api/webhooks/assinafy
\* the handler up to its update: the body's parse, the extraction, the contract
\* lookup and the mapping of the event to updateData.  delivery and after1 note,
\* for a payload the provider keeps, which delivery this is and the table as the
\* delivery found it (for a second delivery: as the first one left it).
WebhookHandle(p, payload, jsonOk, dbOk, resend, delivery, after1) ==
  LET ev == Normalize(payload)
      found == SelectByDocumentId(contracts, ev.assinafyDocumentId)
      local == [ NoReq EXCEPT !.kind = "webhook",
                              !.payload = IF resend THEN << payload >> ELSE << >>,
                              !.delivery = delivery, !.after1 = after1 ]
  IN  /\ UNCHANGED << contracts, now, calls, writes, tables >>
      /\ IF ~jsonOk
         THEN Respond(p, 400, "InvalidJson") /\ req' = [ req EXCEPT ![p] = local ]
         ELSE IF ~Truthy(ev.eventType)
         THEN Respond(p, 400, "UnknownStructure") /\ req' = [ req EXCEPT ![p] = local ]
         ELSE IF ~Truthy(ev.assinafyDocumentId)
         THEN Respond(p, 400, "MissingDocumentId") /\ req' = [ req EXCEPT ![p] = local ]
         ELSE IF ~dbOk
         THEN Respond(p, 500, "Internal") /\ req' = [ req EXCEPT ![p] = local ]
         ELSE IF found = {}
         THEN Respond(p, 200, "ContractNotFound") /\ req' = [ req EXCEPT ![p] = local ]
         ELSE \E c \in found :
                LET m == MapEvent(ev, contracts[c].assinafyStatus, now)
                    known == [ local EXCEPT !.contractId = c, !.data = m.data ]
                IN  /\ req' = [ req EXCEPT ![p] = known ]
                    /\ IF m.early THEN Respond(p, 200, "NoChange")
                       ELSE IF ~HasChanges(m.data) THEN Respond(p, 200, "Processed")
                       ELSE pc' = [ pc EXCEPT ![p] = "wh_update" ] /\ UNCHANGED resp

\* a delivery arrives; resend: the provider keeps the payload, to deliver it again
WebhookStart(p, payload, jsonOk, dbOk, resend) ==
  /\ Accept(p)
  /\ WebhookHandle(p, payload, jsonOk, dbOk, resend, IF resend THEN 1 ELSE 0,
                   IF resend THEN contracts ELSE << >>)

\* the provider delivers an acknowledged event a second time
WebhookRedeliver(p, dbOk) ==
  /\ pc[p] = "done"
  /\ req[p].kind = "webhook"
  /\ req[p].delivery = 1
  /\ resp[p].status = 200
  /\ started < MaxRequests
  /\ started' = started + 1
  /\ WebhookHandle(p, req[p].payload[1], TRUE, dbOk, TRUE, 2, contracts)

\* variant: the update writes the whole row back, from the row as the handler
\* read it
WebhookUpdateWholeRow(p, dbOk) ==
  /\ UNCHANGED tables
  /\ pc[p] = "wh_update"
  /\ UNCHANGED << now, req, calls, started >>
  /\ IF dbOk
     THEN /\ contracts' = [ contracts EXCEPT ![req[p].contractId] =
                 ApplySet(req[p].after1[req[p].contractId], req[p].data) ]
          /\ writes' = [ writes EXCEPT ![p] = @ + 1 ]
          /\ Respond(p, 200, "Processed")
     ELSE /\ Respond(p, 500, "Internal")
          /\ UNCHANGED << contracts, writes >>

\* the update of the contract with updateData
WebhookUpdate(p, dbOk) ==
  /\ UNCHANGED tables
  /\ pc[p] = "wh_update"
  /\ UNCHANGED << now, req, calls, started >>
  /\ IF dbOk
     THEN /\ UpdateContract(p, req[p].contractId, req[p].data)
          /\ Respond(p, 200, "Processed")
     ELSE /\ Respond(p, 500, "Internal")
          /\ UNCHANGED << contracts, writes >>

\* ------------------------------------------------------------------ inputs
Callers == Users \cup { NULL }
ContractIdInputs == 1..(MaxContracts + 1)

\* a well-formed signer, one whose name is a single space, one with an empty
\* name and one with a malformed email
SignerInputs ==
  { [ fullName |-> "Ana Silva", email |-> "ana@example.com" ],
    [ fullName |-> " ", email |-> "bob@example.com" ],
    [ fullName |-> "", email |-> "ana@example.com" ],
    [ fullName |-> "Ana Silva", email |-> "ana.example.com" ] }

\* the signer lists of a request body, up to MaxSigners long
SignerLists ==
  UNION { [ 1..n -> SignerInputs ] : n \in 0..MaxSigners }

EventTypeInputs ==
  { "document_viewed_by_signer", "signer_signed_document", "DOCUMENT_SIGNED",
    "document_certificated", "document_rejected", "document_expired",
    "document_cancelled", "failed", "document_archived" }
StatusInputs == { NULL, "pending_signature" }

\* { event, data: { document: { id, status, artifacts: { certificated } } } }
NestedPayload(e, d, s, u) ==
  [ NoPayload EXCEPT !.event = e, !.hasData = TRUE,
      !.dataDocument = [ NoDoc EXCEPT !.defined = TRUE, !.id = d, !.status = s,
                                      !.artifactsCertificated = u ] ]

\* { event_type, document: { document_id, current_status, download_urls } }
RootPayload(e, d, s, u) ==
  [ NoPayload EXCEPT !.event_type = e,
      !.document = [ NoDoc EXCEPT !.defined = TRUE, !.document_id = d,
                                  !.current_status = s,
                                  !.downloadUrlsCertificated = u ] ]

\* { type, id, status }: the document's fields on the payload itself
FlatPayload(e, d, s) ==
  [ NoPayload EXCEPT !.type = e, !.self = [ NoDoc EXCEPT !.id = d, !.status = s ] ]

PayloadInputs ==
  { NestedPayload(e, d, s, NULL) :
      e \in EventTypeInputs, d \in DocIds, s \in StatusInputs }
  \cup { NestedPayload("document_ready", d, s, CertUrl) : d \in DocIds, s \in StatusInputs }
  \cup { RootPayload("process_completed", d, "certificated", CertUrl) : d \in DocIds }
  \cup { FlatPayload("signer_rejected_document", d, NULL) : d \in DocIds }
  \cup { NestedPayload(NULL, "doc-1", NULL, NULL),
         NestedPayload("document_signed", NULL, NULL, NULL),
         NoPayload }

\* ------------------------------------------------------------ specification
\* a request other than a webhook delivery arrives
Arrivals ==
  \/ \E u \in Uploaders : Upload(u)
  \/ \E p \in Slots, u \in Callers, c \in ContractIdInputs, envOk, fileOk \in BOOLEAN :
       SubmitStart(p, u, c, envOk, fileOk)
  \/ \E p \in Slots, u \in Callers, c \in ContractIdInputs, envOk \in BOOLEAN,
        signers \in SignerLists :
       ReqSigStart(p, u, c, envOk, signers)

\* a handler past its first step takes its next one, or the clock ticks
Steps ==
  \/ Tick
  \/ \E p \in Slots : Finish(p)
  \/ \E p \in Slots, o \in SubmitOutcomes, d \in DocIds : SubmitFetch(p, o, d)
  \/ \E p \in Slots, dbOk \in BOOLEAN : SubmitUpdate(p, dbOk)
  \/ \E p \in Slots, o \in CallOutcomes : ReqSigCreateSigner(p, o)
  \/ \E p \in Slots, o \in CallOutcomes, a \in AssignmentIds : ReqSigAssign(p, o, a)
  \/ \E p \in Slots, dbOk \in BOOLEAN : ReqSigUpdate(p, dbOk)
  \/ \E p \in Slots, dbOk \in BOOLEAN : WebhookUpdate(p, dbOk)

\* requests of any kind, overlapping
Next ==
  \/ Arrivals
  \/ Steps
  \/ \E p \in Slots, payload \in PayloadInputs, jsonOk, dbOk \in BOOLEAN :
       WebhookStart(p, payload, jsonOk, dbOk, FALSE)

Spec == Init /\ [][Next]_vars

\* no request is in a slot
AllIdle == \A p \in Slots : pc[p] = "idle"

\* the same requests handled one at a time (none arrives while one is in a
\* slot), some of the deliveries made twice
NextSeq ==
  \/ AllIdle /\ Arrivals
  \/ Steps
  \/ /\ AllIdle
     /\ \E p \in Slots, payload \in PayloadInputs, jsonOk, dbOk, resend \in BOOLEAN :
          WebhookStart(p, payload, jsonOk, dbOk, resend)
  \/ \E p \in Slots, dbOk \in BOOLEAN : WebhookRedeliver(p, dbOk)

SpecSeq == Init /\ [][NextSeq]_vars

\* the event names of every case label of the switch, three of them in other
\* letter cases, and one name that is no case label
HookEventTypeInputs ==
  { "document_viewed_by_signer", "signer_signed_document", "document_signed",
    "document_ready", "process_completed", "document_certificated",
    "document_rejected", "signer_rejected_document", "document_expired",
    "document_cancelled", "rejected_by_user", "document_processing_failed", "failed",
    "DOCUMENT_SIGNED", "Document_Certificated", "DOCUMENT_EXPIRED", "document_archived" }

\* no status, a status the provider reports while signatures are pending, and
\* the status send-to-assinafy stored
HookStatusInputs == StatusInputs \cup { "uploaded" }

HookPayloadInputs ==
  { NestedPayload(e, d, s, NULL) :
      e \in HookEventTypeInputs, d \in DocIds, s \in HookStatusInputs }
  \cup { RootPayload("Document_Certificated", d, NULL, CertUrlReissued) : d \in DocIds }
  \cup PayloadInputs

\* the payloads of two deliveries that race on one contract
RacePayloadInputs ==
  { NestedPayload(e, "doc-1", s, NULL) :
      e \in { "document_viewed_by_signer", "signer_signed_document",
              "document_certificated", "document_expired", "document_archived" },
      s \in HookStatusInputs }
  \cup { NestedPayload("document_ready", "doc-1", NULL, CertUrl) }

\* an upload, or a send-to-assinafy by an uploader, while no request is in a slot
Setup ==
  /\ AllIdle
  /\ \/ \E u \in Uploaders : Upload(u)
     \/ \E p \in Slots, u \in Uploaders, c \in 1..MaxContracts :
          SubmitStart(p, u, c, TRUE, TRUE)

\* the next step of a send-to-assinafy or of a delivery, or the clock ticks
HookSteps ==
  \/ Tick
  \/ \E p \in Slots : Finish(p)
  \/ \E p \in Slots, o \in SubmitOutcomes, d \in DocIds : SubmitFetch(p, o, d)
  \/ \E p \in Slots, dbOk \in BOOLEAN : SubmitUpdate(p, dbOk)
  \/ \E p \in Slots, dbOk \in BOOLEAN : WebhookUpdate(p, dbOk)

\* contracts are uploaded and sent to the provider, then deliveries of every
\* event name arrive one at a time
NextHook ==
  \/ Setup
  \/ HookSteps
  \/ /\ AllIdle
     /\ \E p \in Slots, payload \in HookPayloadInputs, jsonOk, dbOk \in BOOLEAN :
          WebhookStart(p, payload, jsonOk, dbOk, TRUE)

SpecHook == Init /\ [][NextHook]_vars

\* contracts are uploaded and sent to the provider; the last two requests are
\* deliveries for doc-1, which may overlap
NextRace ==
  \/ Setup
  \/ HookSteps
  \/ /\ started + 2 >= MaxRequests
     /\ \E p \in Slots, payload \in RacePayloadInputs :
          WebhookStart(p, payload, TRUE, TRUE, TRUE)

SpecRace == Init /\ [][NextRace]_vars

\* --------------------------------------- deliveries for different contracts
\* a contract as send-to-assinafy leaves it
SubmittedContract(user, assinafyDocumentId) ==
  ApplySet(NewContract(user),
    [ assinafyDocumentId |-> assinafyDocumentId,
      assinafyStatus |-> "uploaded",
      assinafyOriginalUrl |-> OriginalUrl,
      status |-> "pending_signature_setup" ])

\* a contract as request-signatures leaves it
RequestedContract(user, assinafyDocumentId) ==
  ApplySet(SubmittedContract(user, assinafyDocumentId),
    [ assinafyStatus |-> "pending_signature",
      status |-> "pending_assinaturas",
      assinafySignatureRequestId |-> "asg-1" ])

\* the table after two contracts were uploaded and sent to the provider, and
\* signatures were requested for some of them
PairStores ==
  { << a, b >> :
      a \in { SubmittedContract("u1", "doc-1"), RequestedContract("u1", "doc-1") },
      b \in { SubmittedContract("u1", "doc-2"), RequestedContract("u1", "doc-2") } }

\* the requests that made the table are over; two more will arrive
InitPair ==
  /\ tables = NoRows
  /\ contracts \in PairStores
  /\ now = 1
  /\ pc = [ p \in Slots |-> "idle" ]
  /\ req = [ p \in Slots |-> NoReq ]
  /\ resp = [ p \in Slots |-> NoResp ]
  /\ calls = [ p \in Slots |-> << >> ]
  /\ writes = [ p \in Slots |-> 0 ]
  /\ started = MaxRequests - 2

\* the payloads of deliveries for either contract
PairPayloadInputs ==
  { NestedPayload(e, d, s, NULL) :
      e \in { "document_viewed_by_signer", "signer_signed_document",
              "document_certificated", "document_expired", "document_archived" },
      d \in DocIds, s \in HookStatusInputs }
  \cup { NestedPayload("document_ready", d, NULL, CertUrl) : d \in DocIds }

\* two deliveries arrive and are handled, overlapping or not
NextPair ==
  \/ Tick
  \/ \E p \in Slots : Finish(p)
  \/ \E p \in Slots, dbOk \in BOOLEAN : WebhookUpdate(p, dbOk)
  \/ \E p \in Slots, payload \in PairPayloadInputs :
       WebhookStart(p, payload, TRUE, TRUE, TRUE)

SpecPair == InitPair /\ [][NextPair]_vars

\* ---------------------------------------- a provider that may never answer
\* await fetch(...) on a call the provider never answers: node-fetch is given no
\* timeout and no abort signal, so the promise never settles and the handler
\* stays at its await
ProviderNeverAnswers(p) ==
  /\ UNCHANGED tables
  /\ pc[p] \in { "sub_fetch", "rs_signer", "rs_assign" }
  /\ pc[p] = "rs_assign" => Len(req[p].ids) = Len(req[p].signers)
  /\ ProviderCall(p, CASE pc[p] = "sub_fetch" -> "uploadDocument"
                       [] pc[p] = "rs_signer" -> "createSigner"
                       [] OTHER -> "createSignatureAssignment", "none")
  /\ pc' = [ pc EXCEPT ![p] = "awaiting" ]
  /\ UNCHANGED << contracts, now, req, resp, writes, started >>

\* the next step of a send-to-assinafy or of a request-signatures: the provider
\* answers its call or never does, or the handler writes its update
LiveSteps ==
  \/ Tick
  \/ \E p \in Slots : Finish(p)
  \/ \E p \in Slots, o \in SubmitOutcomes, d \in DocIds : SubmitFetch(p, o, d)
  \/ \E p \in Slots, dbOk \in BOOLEAN : SubmitUpdate(p, dbOk)
  \/ \E p \in Slots, o \in CallOutcomes : ReqSigCreateSigner(p, o)
  \/ \E p \in Slots, o \in CallOutcomes, a \in AssignmentIds : ReqSigAssign(p, o, a)
  \/ \E p \in Slots, dbOk \in BOOLEAN : ReqSigUpdate(p, dbOk)
  \/ \E p \in Slots : ProviderNeverAnswers(p)

NextLive ==
  \/ Arrivals
  \/ LiveSteps

\* The event loop runs every continuation whose promise has settled: a handler
\* that can take a step takes one, and an answer the provider gives is read.
\* Nothing obliges the provider to answer, nor a request to arrive.
Fairness ==
  \A p \in Slots :
    /\ WF_vars(Finish(p))
    /\ WF_vars(\E o \in SubmitOutcomes, d \in DocIds : SubmitFetch(p, o, d))
    /\ WF_vars(\E dbOk \in BOOLEAN : SubmitUpdate(p, dbOk))
    /\ WF_vars(\E o \in CallOutcomes : ReqSigCreateSigner(p, o))
    /\ WF_vars(\E o \in CallOutcomes, a \in AssignmentIds : ReqSigAssign(p, o, a))
    /\ WF_vars(\E dbOk \in BOOLEAN : ReqSigUpdate(p, dbOk))

SpecLive == Init /\ [][NextLive]_vars /\ Fairness

\* ------------------------------------------ suppliers, events and their types
\* a column that references no row (null)
NoId == 0

\* serial('id'): the id the table gives its next row
NextId(table) == tables.serial[table] + 1

\* t with row inserted into table
WithRow(t, table, row) ==
  [ t EXCEPT ![table] = @ \cup { row }, !.serial[table] = @ + 1 ]

\* t without the row of table whose id is id
WithoutRow(t, table, id) ==
  [ t EXCEPT ![table] = { r \in @ : r.id # id } ]

\* the ids of the rows of table
IdsOf(t, table) == { r.id : r \in t[table] }

\* variant: category_id is a plain integer column
SuppliersCategoryNoReference(t) == TRUE

\* suppliers.category_id references supplier_categories.id
SuppliersCategoryReference(t) ==
  \A s \in t.suppliers :
    s.categoryId = NoId \/ s.categoryId \in IdsOf(t, "supplierCategories")

\* event_suppliers.event_id references events.id and supplier_id references
\* suppliers.id, both not null
EventSuppliersReferences(t) ==
  \A a \in t.eventSuppliers :
    a.eventId \in IdsOf(t, "events") /\ a.supplierId \in IdsOf(t, "suppliers")

\* events.event_type_id references event_types.id and event_size_id references
\* event_sizes.id
EventsReferences(t) ==
  \A e \in t.events :
    /\ e.eventTypeId = NoId \/ e.eventTypeId \in IdsOf(t, "eventTypes")
    /\ e.eventSizeId = NoId \/ e.eventSizeId \in IdsOf(t, "eventSizes")

\* the database accepts a statement whose result satisfies every reference
ConstraintsHold(t) ==
  SuppliersCategoryReference(t) /\ EventSuppliersReferences(t) /\ EventsReferences(t)

\* POST of supplier-categories, event-types and event-sizes: a signed-in user
\* inserts a row under a name no row has yet
CreateNamed(table) ==
  /\ started < MaxRequests
  /\ tables.serial[table] < MaxRows
  /\ started' = started + 1
  /\ tables' = WithRow(tables, table, [ id |-> NextId(table) ])
  /\ UNCHANGED << contracts, now, pc, req, resp, calls, writes >>

\* POST /api/events: the insert of the event, which the database refuses when
\* the type or the size does not exist
CreateEvent(eventTypeId, eventSizeId) ==
  LET row == [ id |-> NextId("events"), eventTypeId |-> eventTypeId,
               eventSizeId |-> eventSizeId ]
  IN  /\ started < MaxRequests
      /\ tables.serial.events < MaxRows
      /\ started' = started + 1
      /\ tables' = IF ConstraintsHold(WithRow(tables, "events", row))
                   THEN WithRow(tables, "events", row) ELSE tables
      /\ UNCHANGED << contracts, now, pc, req, resp, calls, writes >>

\* POST /api/suppliers up to its insert: authentication, then the check that a
\* given category exists
SupplierStart(p, clerkUserId, categoryId) ==
  /\ Accept(p)
  /\ UNCHANGED << contracts, now, calls, writes, tables >>
  /\ req' = [ req EXCEPT ![p] =
       [ NoReq EXCEPT !.kind = "supplier", !.params = [ categoryId |-> categoryId ] ] ]
  /\ IF clerkUserId = NULL THEN Respond(p, 401, "Unauthorized")
     ELSE IF categoryId # NoId /\ categoryId \notin IdsOf(tables, "supplierCategories")
     THEN Respond(p, 400, "NoSuchCategory")
     ELSE pc' = [ pc EXCEPT ![p] = "sup_insert" ] /\ UNCHANGED resp

\* the insert of the supplier
SupplierInsert(p) ==
  LET row == [ id |-> NextId("suppliers"), categoryId |-> req[p].params.categoryId ]
  IN  /\ pc[p] = "sup_insert"
      /\ tables.serial.suppliers < MaxRows
      /\ UNCHANGED << contracts, now, req, calls, writes, started >>
      /\ IF ConstraintsHold(WithRow(tables, "suppliers", row))
         THEN tables' = WithRow(tables, "suppliers", row) /\ Respond(p, 201, "Created")
         ELSE UNCHANGED tables /\ Respond(p, 500, "Internal")

\* the usageCheck of a DELETE: the rows that reference row id of table
UsageCount(t, table, id) ==
  CASE table = "supplierCategories" ->
         Cardinality({ s \in t.suppliers : s.categoryId = id })
    [] table = "suppliers" ->
         Cardinality({ a \in t.eventSuppliers : a.supplierId = id })
    [] table = "eventTypes" ->
         Cardinality({ e \in t.events : e.eventTypeId = id })
    [] OTHER ->
         Cardinality({ e \in t.events : e.eventSizeId = id })

\* DELETE of a supplier category, a supplier, an event type or an event size, up
\* to its delete: authentication, then the usage check
DeleteStart(p, clerkUserId, table, id) ==
  /\ Accept(p)
  /\ UNCHANGED << contracts, now, calls, writes, tables >>
  /\ req' = [ req EXCEPT ![p] =
       [ NoReq EXCEPT !.kind = "delete", !.params = [ table |-> table, id |-> id ] ] ]
  /\ IF clerkUserId = NULL THEN Respond(p, 401, "Unauthorized")
     ELSE IF UsageCount(tables, table, id) > 0 THEN Respond(p, 400, "InUse")
     ELSE pc' = [ pc EXCEPT ![p] = "delete" ] /\ UNCHANGED resp

\* the delete of the row: refused by the database when a row references it,
\* 404 when there is no such row
DeleteRow(p) ==
  LET table == req[p].params.table
      id == req[p].params.id
  IN  /\ pc[p] = "delete"
      /\ UNCHANGED << contracts, now, req, calls, writes, started >>
      /\ IF ~ConstraintsHold(WithoutRow(tables, table, id))
         THEN UNCHANGED tables /\ Respond(p, 500, "Internal")
         ELSE IF id \notin IdsOf(tables, table)
         THEN UNCHANGED tables /\ Respond(p, 404, "NotFound")
         ELSE tables' = WithoutRow(tables, table, id) /\ Respond(p, 200, "Deleted")

\* POST /api/events/[eventId]/suppliers up to its first read: authentication,
\* then the read of the event
AssociateStart(p, clerkUserId, eventId, supplierId) ==
  /\ Accept(p)
  /\ UNCHANGED << contracts, now, calls, writes, tables >>
  /\ req' = [ req EXCEPT ![p] =
       [ NoReq EXCEPT !.kind = "associate",
                      !.params = [ eventId |-> eventId, supplierId |-> supplierId ] ] ]
  /\ IF clerkUserId = NULL THEN Respond(p, 401, "Unauthorized")
     ELSE IF eventId \notin IdsOf(tables, "events") THEN Respond(p, 404, "NoSuchEvent")
     ELSE pc' = [ pc EXCEPT ![p] = "es_supplier" ] /\ UNCHANGED resp

\* the read of the supplier
AssociateSupplier(p) ==
  /\ pc[p] = "es_supplier"
  /\ UNCHANGED << contracts, now, req, calls, writes, started, tables >>
  /\ IF req[p].params.supplierId \notin IdsOf(tables, "suppliers")
     THEN Respond(p, 404, "NoSuchSupplier")
     ELSE pc' = [ pc EXCEPT ![p] = "es_existing" ] /\ UNCHANGED resp

\* the rows of event_suppliers for the pair
Associations(t, eventId, supplierId) ==
  { a \in t.eventSuppliers : a.eventId = eventId /\ a.supplierId = supplierId }

\* the read of an existing association of the pair
AssociateExisting(p) ==
  /\ pc[p] = "es_existing"
  /\ UNCHANGED << contracts, now, req, calls, writes, started, tables >>
  /\ IF Associations(tables, req[p].params.eventId, req[p].params.supplierId) # {}
     THEN Respond(p, 409, "AlreadyAssociated")
     ELSE pc' = [ pc EXCEPT ![p] = "es_insert" ] /\ UNCHANGED resp

\* the insert of the association; the table has no unique constraint on the pair
AssociateInsert(p) ==
  LET row == [ id |-> NextId("eventSuppliers"), eventId |-> req[p].params.eventId,
               supplierId |-> req[p].params.supplierId ]
  IN  /\ pc[p] = "es_insert"
      /\ tables.serial.eventSuppliers < MaxRows
      /\ UNCHANGED << contracts, now, req, calls, writes, started >>
      /\ IF ConstraintsHold(WithRow(tables, "eventSuppliers", row))
         THEN tables' = WithRow(tables, "eventSuppliers", row) /\ Respond(p, 201, "Created")
         ELSE UNCHANGED tables /\ Respond(p, 500, "Internal")

\* the ids a request may name: those a table has given out, and none
IdInputs == 1..MaxRows
GuardedTables == { "supplierCategories", "suppliers", "eventTypes", "eventSizes" }

\* the requests on suppliers, events and their types, overlapping
NextCrud ==
  \/ \E table \in { "supplierCategories", "eventTypes", "eventSizes" } : CreateNamed(table)
  \/ \E eventTypeId, eventSizeId \in { NoId } \cup IdInputs :
       CreateEvent(eventTypeId, eventSizeId)
  \/ \E p \in Slots, u \in Callers, categoryId \in { NoId } \cup IdInputs :
       SupplierStart(p, u, categoryId)
  \/ \E p \in Slots : SupplierInsert(p)
  \/ \E p \in Slots, u \in Callers, table \in GuardedTables, id \in IdInputs :
       DeleteStart(p, u, table, id)
  \/ \E p \in Slots : DeleteRow(p)
  \/ \E p \in Slots, u \in Callers, eventId, supplierId \in IdInputs :
       AssociateStart(p, u, eventId, supplierId)
  \/ \E p \in Slots : AssociateSupplier(p)
  \/ \E p \in Slots : AssociateExisting(p)
  \/ \E p \in Slots : AssociateInsert(p)
  \/ \E p \in Slots : Finish(p)

SpecCrud == Init /\ [][NextCrud]_vars

\* ------------------------------------------------------------- properties
TerminalStatuses == { "signed", "rejected", "expired", "cancelled" }

\* the four columns the webhook writes
WebhookColumns(row) ==
  << row.status, row.assinafyStatus, row.assinafyCertificatedUrl, row.signedAt >>

\* slot p holds a request of kind k that has been answered
Answered(p, k) == pc[p] = "done" /\ req[p].kind = k

\* C1: a webhook event delivered twice in succession leaves every contract's
\* status, assinafyStatus, assinafyCertificatedUrl and signedAt as the first
\* delivery left them.
C1_SecondDeliveryChangesNothing ==
  \A p \in Slots :
    Answered(p, "webhook") /\ req[p].delivery = 2 =>
      \A c \in 1..Len(contracts) :
        WebhookColumns(contracts[c]) = WebhookColumns(req[p].after1[c])

\* C2: a webhook update never changes the status of a contract whose status is
\* signed, rejected, expired or cancelled.
C2_TerminalStatusKept ==
  [][ \A p \in Slots :
        pc[p] = "wh_update" /\ pc'[p] = "done" =>
          \A c \in 1..Len(contracts) :
            contracts[c].status \in TerminalStatuses =>
              contracts'[c].status = contracts[c].status ]_vars

\* C3: a send-to-assinafy request answered with a provider failure (the fetch
\* threw, or the answer was not a success) has written nothing: the contract is
\* still the row the upload inserted, assinafyDocumentId null and status uploaded.
C3_FailedUploadLeavesRow ==
  \A p \in Slots :
    Answered(p, "submit")
    /\ resp[p].error \in { "ProviderCommunication", "ProviderFailed" } =>
      /\ writes[p] = 0
      /\ contracts[req[p].contractId] = NewContract(req[p].clerkUserId)

C3_Witness ==
  \E p \in Slots :
    /\ Answered(p, "submit")
    /\ resp[p].error = "ProviderFailed"
    /\ calls[p] = << [ op |-> "uploadDocument", ok |-> FALSE, outcome |-> "http_error" ] >>

\* a name with nothing in it but white space
IsBlank(fullName) == fullName \in { "", " " }

\* a signer list that is empty or holds a blank name or a malformed email
BadSigners(signers) ==
  \/ Len(signers) = 0
  \/ \E i \in 1..Len(signers) :
       IsBlank(signers[i].fullName) \/ signers[i].email = "ana.example.com"

\* C4: a request-signatures request that has called the provider, written the
\* contract or stands past its validation carries a signer list that is not
\* empty and holds no blank name and no malformed email.
C4_BlankNameRejected ==
  \A p \in Slots :
    /\ req[p].kind = "reqsig"
    /\ ( pc[p] \in { "rs_signer", "rs_assign", "rs_update" }
         \/ calls[p] # << >> \/ writes[p] > 0 )
    => ~BadSigners(req[p].signers)

\* C5: no two contracts have the same non-null assinafyDocumentId.
C5_DocumentIdUnique ==
  \A c1, c2 \in 1..Len(contracts) :
    c1 # c2 /\ contracts[c1].assinafyDocumentId # NULL =>
      contracts[c1].assinafyDocumentId # contracts[c2].assinafyDocumentId

\* a send-to-assinafy whose update the unique constraint rejected
C5_Witness ==
  \E p \in Slots, c \in 1..Len(contracts) :
    /\ Answered(p, "submit")
    /\ resp[p].status = 500
    /\ calls[p] = << [ op |-> "uploadDocument", ok |-> TRUE, outcome |-> "ok" ] >>
    /\ c # req[p].contractId
    /\ contracts[c].assinafyDocumentId = req[p].data.assinafyDocumentId
    /\ contracts[req[p].contractId].assinafyDocumentId = NULL

\* C6: a contract's assinafyDocumentId, once not null, is never written again.
C6_DocumentIdWrittenOnce ==
  [][ \A c \in 1..Len(contracts) :
        contracts[c].assinafyDocumentId # NULL =>
          contracts'[c].assinafyDocumentId = contracts[c].assinafyDocumentId ]_vars

UpdatePending(p) == pc[p] \in { "sub_update", "rs_update", "wh_update" }

CallsOf(p, op) == { i \in 1..Len(calls[p]) : calls[p][i].op = op }

\* slot p's last provider call was op, taken as a success
LastCallOk(p, op) ==
  calls[p] # << >> /\ calls[p][Len(calls[p])] = [ op |-> op, ok |-> TRUE, outcome |-> "ok" ]

\* C9: in a request-signatures request, once a createSigner call has failed no
\* createSignatureAssignment call is made and nothing is written; once the
\* assignment call has failed nothing is written; the contract is written, or
\* about to be, only when the last call was a successful assignment that
\* followed one successful createSigner call per signer.
C9_AllOrNothing ==
  \A p \in Slots :
    req[p].kind = "reqsig" =>
      /\ (\E i \in CallsOf(p, "createSigner") : ~calls[p][i].ok) =>
           CallsOf(p, "createSignatureAssignment") = {} /\ writes[p] = 0
      /\ (\E i \in CallsOf(p, "createSignatureAssignment") : ~calls[p][i].ok) =>
           writes[p] = 0
      /\ (writes[p] > 0 \/ pc[p] = "rs_update") =>
           /\ LastCallOk(p, "createSignatureAssignment")
           /\ Cardinality(CallsOf(p, "createSigner")) = Len(req[p].signers)
           /\ \A i \in CallsOf(p, "createSigner") : calls[p][i].ok

\* the second signer's creation failed
C9_Witness ==
  \E p \in Slots :
    /\ Answered(p, "reqsig")
    /\ resp[p].error = "SignerCommunication"
    /\ calls[p] = << [ op |-> "createSigner", ok |-> TRUE, outcome |-> "ok" ],
                     [ op |-> "createSigner", ok |-> FALSE, outcome |-> "rejected" ] >>

\* a request answered Forbidden, AlreadySubmitted, NotYetSubmitted or NotFound
\* has called the provider and written nothing
RefusedQuietly ==
  \A p \in Slots :
    (Answered(p, "submit") \/ Answered(p, "reqsig"))
    /\ resp[p].error \in { "Forbidden", "AlreadySubmitted", "NotYetSubmitted", "NotFound" } =>
      calls[p] = << >> /\ writes[p] = 0

\* the first step of a send-to-assinafy or request-signatures request leaves the
\* table alone, and takes the request towards its provider call only when the
\* contract exists, the caller uploaded it, and its assinafyDocumentId is null
\* (send-to-assinafy) or not null (request-signatures)
GoesOnOnlyWhenAllowed ==
  \A p \in Slots :
    pc[p] = "idle" /\ pc'[p] # "idle" /\ req'[p].kind \in { "submit", "reqsig" } =>
      /\ contracts' = contracts
      /\ pc'[p] # "done" =>
           /\ req'[p].contractId \in 1..Len(contracts)
           /\ contracts[req'[p].contractId].uploadedByUserId = req'[p].clerkUserId
           /\ (req'[p].kind = "submit") =
                (contracts[req'[p].contractId].assinafyDocumentId = NULL)

\* C10: a send-to-assinafy or request-signatures request whose caller is not the
\* uploader, whose contract is missing, or whose contract is already submitted
\* (send-to-assinafy) or not yet submitted (request-signatures) makes no
\* provider call and changes no contract.
C10_RefusedBeforeProvider ==
  []RefusedQuietly /\ [][GoesOnOnlyWhenAllowed]_vars

C10_Witness ==
  \E p \in Slots :
    Answered(p, "submit") /\ resp[p].error = "Forbidden" /\ calls[p] = << >>

\* the event slot p's delivery carried, for a delivery whose payload is kept
Delivered(p) == Normalize(req[p].payload[1])

\* a delivery held by slot p, with its payload, has been answered
DeliveryAnswered(p) == Answered(p, "webhook") /\ req[p].payload # << >>

\* the contracts whose assinafyDocumentId is id
HoldersOf(id) == { c \in 1..Len(contracts) : contracts[c].assinafyDocumentId = id }

\* C11: a delivery whose body parsed, that carries an event type and a document
\* id no contract holds, and whose lookup did not fail, is answered 200 and
\* has written nothing: the table is as the delivery found it.
C11_UnknownDocumentIgnored ==
  \A p \in Slots :
    /\ DeliveryAnswered(p)
    /\ resp[p].error \notin { "InvalidJson", "Internal" }
    /\ Truthy(Delivered(p).eventType)
    /\ Truthy(Delivered(p).assinafyDocumentId)
    /\ HoldersOf(Delivered(p).assinafyDocumentId) = {}
    => /\ resp[p] = [ status |-> 200, error |-> "ContractNotFound" ]
       /\ writes[p] = 0
       /\ contracts = req[p].after1

\* a completion event for doc-2 while the only submitted contract holds doc-1
C11_Witness ==
  \E p \in Slots :
    /\ DeliveryAnswered(p)
    /\ resp[p].error = "ContractNotFound"
    /\ Delivered(p).eventType = "document_certificated"
    /\ Delivered(p).assinafyDocumentId = "doc-2"
    /\ HoldersOf("doc-1") # {}

\* C12: a delivery whose body parsed is answered 200 when an event type and a
\* document id can be extracted from it, and 400 when one of them cannot; it is
\* answered with no other status.
C12_SuccessOr400 ==
  \A p \in Slots :
    DeliveryAnswered(p) /\ resp[p].error # "InvalidJson" =>
      resp[p].status =
        IF Truthy(Delivered(p).eventType) /\ Truthy(Delivered(p).assinafyDocumentId)
        THEN 200 ELSE 400

\* the mapping table's internal status for an event name as delivered, in any
\* letter case; NULL for a name of no family
TableStatus(eventType) ==
  CASE eventType \in { "signer_signed_document", "document_signed", "DOCUMENT_SIGNED" } ->
         "pending_assinaturas"
    [] eventType \in { "document_ready", "process_completed", "document_certificated",
                       "Document_Certificated" } -> "signed"
    [] eventType \in { "document_rejected", "signer_rejected_document" } -> "rejected"
    [] eventType \in { "document_expired", "DOCUMENT_EXPIRED" } -> "expired"
    [] eventType \in { "document_cancelled", "rejected_by_user" } -> "cancelled"
    [] eventType \in { "document_processing_failed", "failed" } ->
         "error_signature_provider"
    [] OTHER -> NULL

\* slot p's delivery was answered 200 and its event name belongs to a family
FamilyDeliveryDone(p) ==
  /\ DeliveryAnswered(p)
  /\ resp[p].status = 200
  /\ TableStatus(Delivered(p).eventType) # NULL

\* C13: after a delivery answered 200 whose event name belongs, in any letter
\* case, to a family of the mapping table, the contract holding the delivery's
\* document id has the family's internal status.
C13_StatusFollowsTable ==
  \A p \in Slots :
    FamilyDeliveryDone(p) =>
      \A c \in HoldersOf(Delivered(p).assinafyDocumentId) :
        contracts[c].status = TableStatus(Delivered(p).eventType)

\* an event name in capitals has moved a contract to pending_assinaturas
C13_Witness ==
  \E p \in Slots :
    /\ FamilyDeliveryDone(p)
    /\ Delivered(p).eventType = "DOCUMENT_SIGNED"
    /\ \E c \in HoldersOf(Delivered(p).assinafyDocumentId) :
         contracts[c].status = "pending_assinaturas"

\* a contract with a document id has a provider status and an original URL and
\* is no longer uploaded
SubmittedWhole ==
  \A c \in 1..Len(contracts) :
    contracts[c].assinafyDocumentId # NULL =>
      /\ contracts[c].assinafyStatus # NULL
      /\ contracts[c].assinafyOriginalUrl # NULL
      /\ contracts[c].status # "uploaded"

\* the step that ends a send-to-assinafy with 200 changes the table in one way:
\* the request's contract gets the document id, status and original URL the
\* provider answered with, and status pending_signature_setup
SubmitWritesOnce ==
  \A p \in Slots :
    pc[p] = "sub_update" /\ pc'[p] = "done" /\ resp'[p].status = 200 =>
      /\ req[p].data.assinafyDocumentId \in DocIds
      /\ contracts' = [ contracts EXCEPT ![req[p].contractId] =
           [ @ EXCEPT !.assinafyDocumentId = req[p].data.assinafyDocumentId,
                      !.assinafyStatus = "uploaded",
                      !.assinafyOriginalUrl = OriginalUrl,
                      !.status = "pending_signature_setup" ] ]

AssignmentInOrder ==
  \A p \in Slots :
    req[p].kind = "reqsig" /\ CallsOf(p, "createSignatureAssignment") # {} =>
      req[p].ids = [ i \in 1..Len(req[p].signers) |-> ProviderSignerId(req[p].signers[i]) ]

\* the step that ends a request-signatures with 200 changes the table in one
\* way: the request's contract gets the assignment id the provider answered
\* with, assinafyStatus pending_signature and status pending_assinaturas
ReqSigWritesOnce ==
  \A p \in Slots :
    pc[p] = "rs_update" /\ pc'[p] = "done" /\ resp'[p].status = 200 =>
      /\ req[p].data.assinafySignatureRequestId \in AssignmentIds
      /\ contracts' = [ contracts EXCEPT ![req[p].contractId] =
           [ @ EXCEPT !.assinafySignatureRequestId = req[p].data.assinafySignatureRequestId,
                      !.assinafyStatus = "pending_signature",
                      !.status = "pending_assinaturas" ] ]

\* C15: a successful request-signatures writes assinafySignatureRequestId as
\* the provider returned it, assinafyStatus pending_signature and status
\* pending_assinaturas in one update, and its assignment was created with one
\* provider signer id per signer, in the order supplied.
C15_ReqSigWritesAllAtOnce ==
  []AssignmentInOrder /\ [][ReqSigWritesOnce]_vars

\* a request with two different signers has succeeded
C15_Witness ==
  \E p \in Slots :
    /\ Answered(p, "reqsig")
    /\ resp[p] = [ status |-> 200, error |-> "Requested" ]
    /\ req[p].ids = << "sgn-ana", "sgn-bob" >>
    /\ contracts[req[p].contractId].assinafySignatureRequestId = "asg-1"
    /\ contracts[req[p].contractId].status = "pending_assinaturas"

\* C16: once a send-to-assinafy whose uploadDocument call succeeded has ended,
\* its contract has a document id; once a request-signatures whose
\* createSignatureAssignment call succeeded has ended, its contract has a
\* signature request id.
C16_CallAndUpdateTogether ==
  \A p \in Slots :
    /\ Answered(p, "submit") /\ LastCallOk(p, "uploadDocument") =>
         contracts[req[p].contractId].assinafyDocumentId # NULL
    /\ Answered(p, "reqsig") /\ LastCallOk(p, "createSignatureAssignment") =>
         contracts[req[p].contractId].assinafySignatureRequestId # NULL

\* the row a delivery of ev, handled alone at time t, makes of row
DeliverAlone(row, ev, t) ==
  LET m == MapEvent(ev, row.assinafyStatus, t)
  IN  IF m.early \/ ~HasChanges(m.data) THEN row ELSE ApplySet(row, m.data)

\* the rows that two deliveries handled one after the other, in either order
\* and at any times, make of row
OneAfterTheOther(row, evA, evB) ==
  { DeliverAlone(DeliverAlone(row, evA, tA), evB, tB) : tA, tB \in 1..MaxTime }
  \cup { DeliverAlone(DeliverAlone(row, evB, tB), evA, tA) : tA, tB \in 1..MaxTime }

\* two deliveries for the same contract, both answered 200
BothDelivered(p, q) ==
  /\ p # q
  /\ DeliveryAnswered(p) /\ DeliveryAnswered(q)
  /\ resp[p].status = 200 /\ resp[q].status = 200
  /\ req[p].contractId # 0 /\ req[p].contractId = req[q].contractId

\* C17: when two deliveries for the same contract have both been answered, however
\* their reads and writes interleaved, the contract is a row that handling the
\* two one after the other, in some order, makes of the row that one of them found.
C17_NoLostUpdate ==
  \A p, q \in Slots :
    BothDelivered(p, q) =>
      \E base \in { req[p].after1[req[p].contractId], req[q].after1[req[p].contractId] } :
        contracts[req[p].contractId] \in OneAfterTheOther(base, Delivered(p), Delivered(q))

\* both deliveries read the contract before either wrote it, and both wrote
C17_Witness ==
  \E p, q \in Slots :
    /\ BothDelivered(p, q)
    /\ req[p].after1 = req[q].after1
    /\ writes[p] = 1 /\ writes[q] = 1
    /\ Delivered(p).eventType = "document_certificated"
    /\ Delivered(q).eventType = "document_expired"

\* the class of the failure slot p's request ended with, NULL when it ended
\* otherwise: refused for its caller, refused for its input or the contract's
\* state, or failed at its last provider call, which the provider answered
\* with a refusal or which did not get through
FailureClass(p) ==
  CASE resp[p].error = "Forbidden" -> "Forbidden"
    [] resp[p].error \in { "AlreadySubmitted", "NotYetSubmitted", "InvalidSigners" } ->
         "Precondition"
    [] calls[p] # << >> /\ calls[p][Len(calls[p])].outcome = "network" ->
         "ProviderUnavailable"
    [] calls[p] # << >>
       /\ calls[p][Len(calls[p])].outcome \in { "rejected", "http_error", "body_error" } ->
         "ProviderRejected"
    [] OTHER -> NULL

\* C18: two send-to-assinafy requests, or two request-signatures requests, that
\* ended with failures of different classes were given different responses.
C18_FailureClassesDistinct ==
  \A p, q \in Slots :
    /\ req[p].kind \in { "submit", "reqsig" }
    /\ Answered(p, req[p].kind) /\ Answered(q, req[p].kind)
    /\ FailureClass(p) # NULL /\ FailureClass(q) # NULL
    /\ FailureClass(p) # FailureClass(q)
    => resp[p] # resp[q]

\* the mapping table's provider status for a delivered event of a family: the
\* payload's status, or the family's default when it carries none; expired for
\* the expiry event
TableProviderStatus(ev) ==
  LET status == TableStatus(ev.eventType)
  IN  CASE status = "pending_assinaturas" -> Or2(ev.assinafyCurrentStatus, "pending_signature")
        [] status = "signed" -> Or2(ev.assinafyCurrentStatus, "certificated")
        [] status = "rejected" -> Or2(ev.assinafyCurrentStatus, "rejected_by_signer")
        [] status = "expired" -> "expired"
        [] status = "cancelled" -> Or2(ev.assinafyCurrentStatus, "cancelled")
        [] status = "error_signature_provider" -> Or2(ev.assinafyCurrentStatus, "failed")
        [] OTHER -> NULL

\* C19: after a delivery answered 200 whose event name belongs to a family of
\* the mapping table, the contract holding the delivery's document id has the
\* table's provider status: the payload's status or the family's default, and
\* expired for the expiry event.
C19_ProviderStatusFollowsTable ==
  \A p \in Slots :
    FamilyDeliveryDone(p) =>
      \A c \in HoldersOf(Delivered(p).assinafyDocumentId) :
        contracts[c].assinafyStatus = TableProviderStatus(Delivered(p))

\* slot p's delivery was answered 200 and its event name belongs to no family
OtherDeliveryDone(p) ==
  /\ DeliveryAnswered(p)
  /\ resp[p].status = 200
  /\ Truthy(Delivered(p).eventType)
  /\ TableStatus(Delivered(p).eventType) = NULL

\* row with the payload's status for assinafyStatus when the payload has one
\* and it is not the row's, and row itself otherwise
WithReportedStatus(row, ev) ==
  IF Truthy(ev.assinafyCurrentStatus) /\ ev.assinafyCurrentStatus # row.assinafyStatus
  THEN [ row EXCEPT !.assinafyStatus = ev.assinafyCurrentStatus ]
  ELSE row

\* C20: after a delivery answered 200 whose event name belongs to no family of
\* the mapping table, the table is as the delivery found it, but for the
\* assinafyStatus of the contract holding its document id, which is the payload's
\* status when the payload has one that differs from the stored one.
C20_OtherEventsMirrorStatusOnly ==
  \A p \in Slots :
    OtherDeliveryDone(p) =>
      /\ Len(contracts) = Len(req[p].after1)
      /\ \A c \in 1..Len(contracts) :
           contracts[c] =
             IF contracts[c].assinafyDocumentId = Delivered(p).assinafyDocumentId
             THEN WithReportedStatus(req[p].after1[c], Delivered(p))
             ELSE req[p].after1[c]

\* an event of no family has changed the assinafyStatus of a contract
C20_Witness ==
  \E p \in Slots :
    /\ OtherDeliveryDone(p)
    /\ Delivered(p).eventType = "document_archived"
    /\ writes[p] = 1
    /\ \E c \in HoldersOf(Delivered(p).assinafyDocumentId) :
         /\ req[p].after1[c].assinafyStatus = "uploaded"
         /\ contracts[c].assinafyStatus = "pending_signature"

\* C21: a delivery that wrote its contract changed at least one of status,
\* assinafyStatus, assinafyCertificatedUrl and signedAt: the row is not the row
\* the delivery found.
C21_WritesOnlyChanges ==
  \A p \in Slots :
    DeliveryAnswered(p) /\ writes[p] > 0 =>
      WebhookColumns(contracts[req[p].contractId])
        # WebhookColumns(req[p].after1[req[p].contractId])

\* C22: a contract's signedAt is null while its status has never been signed,
\* and once it is not null no step changes it.
C22_SignedAtWrittenOnce ==
  [][ \A c \in 1..Len(contracts) :
        /\ contracts[c].signedAt # NullTime =>
             contracts'[c].signedAt = contracts[c].signedAt
        /\ contracts'[c].signedAt # contracts[c].signedAt =>
             contracts'[c].status = "signed" ]_vars

\* slot p is about to write the update of a completion event for contract c
CompletionPending(p, c) ==
  /\ pc[p] = "wh_update"
  /\ req[p].contractId = c
  /\ TableStatus(Delivered(p).eventType) = "signed"

\* C23: a new contract has no assinafyCertificatedUrl; a step changes a
\* contract's assinafyCertificatedUrl only when it is the update of a completion
\* event whose payload carries a certificated URL, and then to that URL: no
\* other event, and no completion event without a URL, changes it.
C23_CertUrlOnlyOnCompletion ==
  [][ /\ \A c \in (Len(contracts) + 1)..Len(contracts') :
           contracts'[c].assinafyCertificatedUrl = NULL
      /\ \A c \in 1..Len(contracts) :
           contracts'[c].assinafyCertificatedUrl # contracts[c].assinafyCertificatedUrl =>
             \E p \in Slots :
               /\ CompletionPending(p, c)
               /\ Truthy(Delivered(p).certUrl)
               /\ contracts'[c].assinafyCertificatedUrl = Delivered(p).certUrl
      /\ \A p \in Slots, c \in 1..Len(contracts) :
           /\ CompletionPending(p, c)
           /\ Truthy(Delivered(p).certUrl)
           /\ writes'[p] > writes[p]
           => contracts'[c].assinafyCertificatedUrl = Delivered(p).certUrl ]_vars

\* a completion event without a URL has been written on a contract that keeps
\* the URL an earlier completion event stored
C23_Witness ==
  \E p \in Slots :
    /\ DeliveryAnswered(p)
    /\ writes[p] > 0
    /\ TableStatus(Delivered(p).eventType) = "signed"
    /\ ~Truthy(Delivered(p).certUrl)
    /\ contracts[req[p].contractId].assinafyCertificatedUrl = CertUrlReissued

\* the provider calls slot p's handler has made are calls of op alone
OnlyCalls(p, op) == \A i \in 1..Len(calls[p]) : calls[p][i].op = op

\* C24: no handler repeats a provider call.  A send-to-assinafy has called
\* uploadDocument at most once and nothing else; a request-signatures has called
\* createSigner at most once per signer of its body, each call but a last failed
\* one having given one signer id, has called nothing after a call that failed,
\* and has called createSignatureAssignment at most once, after the signers.
C24_NoRetry ==
  \A p \in Slots :
    /\ req[p].kind = "submit" =>
         OnlyCalls(p, "uploadDocument") /\ Len(calls[p]) <= 1
    /\ req[p].kind = "reqsig" =>
         /\ Cardinality(CallsOf(p, "createSigner")) <= Len(req[p].signers)
         /\ Cardinality(CallsOf(p, "createSignatureAssignment")) <= 1
         /\ Cardinality(CallsOf(p, "uploadDocument")) = 0
         /\ \A i \in 1..Len(calls[p]) : ~calls[p][i].ok => i = Len(calls[p])
         /\ \A i \in CallsOf(p, "createSigner") : i <= Len(req[p].ids) + 1
         /\ \A i \in CallsOf(p, "createSignatureAssignment") :
              i = Len(req[p].signers) + 1
    /\ req[p].kind \in { "webhook", "none" } => calls[p] = << >>

\* a request-signatures for two signers has ended after its second createSigner
\* call failed, and a send-to-assinafy has ended after its one call failed
C24_Witness ==
  /\ \E p \in Slots :
       /\ Answered(p, "reqsig")
       /\ Len(req[p].signers) = 2
       /\ Len(calls[p]) = 2
       /\ calls[p][1].ok /\ ~calls[p][2].ok
  /\ \E p \in Slots :
       /\ Answered(p, "submit")
       /\ Len(calls[p]) = 1
       /\ calls[p][1].outcome = "network"

\* C25: every send-to-assinafy and every request-signatures that has started is
\* eventually answered, whatever the provider does.
C25_AlwaysAnswered ==
  \A p \in Slots :
    (req[p].kind \in { "submit", "reqsig" } /\ pc[p] # "done") ~> (pc[p] = "done")

\* C26: no step takes a contract whose status is not uploaded to the status
\* uploaded.
C26_NeverBackToUploaded ==
  [][ \A c \in 1..Len(contracts) :
        contracts[c].status # "uploaded" => contracts'[c].status # "uploaded" ]_vars

\* a delivery and a request-signatures have each written a contract that had
\* left uploaded
C26_Witness ==
  /\ \E p \in Slots :
       /\ Answered(p, "webhook") /\ writes[p] > 0
       /\ contracts[req[p].contractId].status # "uploaded"
  /\ \E p \in Slots :
       /\ Answered(p, "reqsig") /\ writes[p] > 0
       /\ contracts[req[p].contractId].status # "uploaded"

\* the columns no delivery writes
KeptColumns(row) ==
  << row.assinafyDocumentId, row.uploadedByUserId, row.filePath,
     row.assinafyOriginalUrl, row.assinafySignatureRequestId >>

\* the contracts a step changes
ChangedContracts == { c \in 1..Len(contracts) : contracts'[c] # contracts[c] }

\* a step changes no contract, or the one contract a pending delivery carries
\* the document id of, and on it none of the kept columns
DeliveryFrame ==
  /\ Len(contracts') = Len(contracts)
  /\ Cardinality(ChangedContracts) <= 1
  /\ \A c \in ChangedContracts :
       /\ \E p \in Slots :
            /\ pc[p] = "wh_update"
            /\ writes'[p] > writes[p]
            /\ contracts[c].assinafyDocumentId = Delivered(p).assinafyDocumentId
       /\ KeptColumns(contracts'[c]) = KeptColumns(contracts[c])

\* two deliveries for different contracts, both answered 200
DeliveredApart(p, q) ==
  /\ p # q
  /\ DeliveryAnswered(p) /\ DeliveryAnswered(q)
  /\ resp[p].status = 200 /\ resp[q].status = 200
  /\ req[p].contractId # 0 /\ req[q].contractId # 0
  /\ req[p].contractId # req[q].contractId

\* the table that two deliveries for contracts cp and cq make of base, each
\* handled alone on its contract at some time: the same in either order
EachAlone(base, cp, evP, cq, evQ) ==
  { [ c \in 1..Len(base) |->
        IF c = cp THEN DeliverAlone(base[c], evP, tP)
        ELSE IF c = cq THEN DeliverAlone(base[c], evQ, tQ)
        ELSE base[c] ] : tP, tQ \in 1..MaxTime }

\* C27: every step of a delivery changes at most the one contract that holds the
\* payload's document id, and on it none of assinafyDocumentId,
\* uploadedByUserId, filePath, assinafyOriginalUrl and
\* assinafySignatureRequestId; and when two deliveries for different contracts
\* have been answered, however their steps interleaved, the table is the one
\* that handling each alone makes of the table the first of them found.
C27_DeliveriesIndependent ==
  /\ [][DeliveryFrame]_vars
  /\ [](\A p, q \in Slots :
         DeliveredApart(p, q) =>
           \E base \in { req[p].after1, req[q].after1 } :
             contracts \in EachAlone(base, req[p].contractId, Delivered(p),
                                     req[q].contractId, Delivered(q)))

\* two deliveries for different contracts read the table before either wrote,
\* and both wrote
C27_Witness ==
  \E p, q \in Slots :
    /\ DeliveredApart(p, q)
    /\ req[p].after1 = req[q].after1
    /\ writes[p] = 1 /\ writes[q] = 1
    /\ Delivered(p).eventType = "document_ready"
    /\ Delivered(q).eventType = "document_expired"
    /\ contracts[req[p].contractId].assinafySignatureRequestId = "asg-1"

\* C28: the update of a request-signatures does not change the status of a
\* contract whose status is signed, rejected, expired or cancelled.
C28_ReqSigKeepsTerminal ==
  [][ \A p \in Slots :
        /\ pc[p] = "rs_update"
        /\ writes'[p] > writes[p]
        /\ contracts[req[p].contractId].status \in TerminalStatuses
        => contracts'[req[p].contractId].status = contracts[req[p].contractId].status ]_vars

\* the rows that name row id of table in a referencing column
ReferencesTo(table, id) ==
  CASE table = "supplierCategories" -> { s \in tables.suppliers : s.categoryId = id }
    [] table = "suppliers" -> { a \in tables.eventSuppliers : a.supplierId = id }
    [] table = "eventTypes" -> { e \in tables.events : e.eventTypeId = id }
    [] table = "eventSizes" -> { e \in tables.events : e.eventSizeId = id }
    [] OTHER -> {}

\* some row names, in a referencing column, a row that does not exist
Dangling ==
  \E table \in GuardedTables, id \in 1..MaxRows :
    ReferencesTo(table, id) # {} /\ \A r \in tables[table] : r.id # id

\* a step of a DELETE whose row is referenced ends the request with an error and
\* leaves every table as it is
ReferencedRowKept ==
  \A p \in Slots :
    /\ pc'[p] # pc[p]
    /\ req'[p].kind = "delete"
    /\ ReferencesTo(req'[p].params.table, req'[p].params.id) # {}
    => /\ tables' = tables
       /\ pc'[p] = "done"
       /\ resp'[p].status >= 400

C30_OneAssociationPerPair ==
  \A a, b \in tables.eventSuppliers :
    a.eventId = b.eventId /\ a.supplierId = b.supplierId => a = b

====
